---- MODULE Spec2Model ----
(***************************************************************************)
(* A model of micron, a job scheduler in which every Job re-arms its own   *)
(* one-shot timer and runs its task under a self-expiring named lock.      *)
(*                                                                         *)
(* Nine specifications over one set of variables:                         *)
(*   SpecSched    the schedule functions (Parse, Every, Next) on inputs    *)
(*   SpecReg      the registry operations Add and AddJob                   *)
(*   SpecJob      one Job: Schedule, the fired-procedure and Stop          *)
(*   SpecNil      one Job as in SpecJob, with NilLocker                    *)
(*   SpecHalt     one Job as in SpecJob, with a fair clock and runtime     *)
(*   SpecMulti    several Cron instances sharing one SemaphoreLocker       *)
(*   SpecPool     one Cron with two Jobs, with a fair clock and runtime    *)
(*   SpecEarly    one Cron with two Jobs, Stop called at any time          *)
(*   SpecRestart  one Job, Start called again after Stop                   *)
(* Instants and durations are integers in milliseconds.                    *)
(***************************************************************************)
EXTENDS Integers, Sequences, FiniteSets, TLC

VARIABLES
    calc,      \* the schedule computation in progress (SpecSched)
    reg,       \* the registry c.jobs and the record of the last call (SpecReg)
    now,       \* the wall clock, in milliseconds
    cfg,       \* what the Cron instances were constructed with
    chain,     \* per job: the timers it armed, each with its fired-procedure
    handle,    \* per job: j.timer, the index of the timer it points to (0 = nil)
    stopped,   \* per job: j.stopped
    starter,   \* per Cron instance: the position of Start
    stopper,   \* per Cron instance: the position of Stop
    sems,      \* SemaphoreLocker.locks: name -> holders and pending releases
    crashed    \* an unrecovered panic has ended the process

vars == <<calc, reg, now, cfg, chain, handle, stopped, starter, stopper, sems, crashed>>

jobVars == <<now, cfg, chain, handle, stopped, starter, stopper, sems, crashed>>

----------------------------------------------------------------------------
(* Time *)

\* time.Second, in the model's unit (milliseconds)
Second == 1000

\* time.Duration.Truncate(m): d - d % m, where Go's % truncates toward zero
GoRem(a, m) == IF a >= 0 THEN a % m ELSE -((-a) % m)

DurationTruncate(d, m) == IF m <= 0 THEN d ELSE d - GoRem(d, m)

\* time.Time.Truncate(m): rounds down to a multiple of m since the zero time;
\* the model's origin is a whole second after the zero time, so this is floor
TimeTruncate(t, m) == t - (t % m)

----------------------------------------------------------------------------
(* Schedules (cron/scheduler.go) *)

\* a variant of Every that rounds to the nearest second
EveryRounding(d) ==
    LET r == DurationTruncate(d + (Second \div 2), Second)
    IN  [kind |-> "every", duration |-> IF r = 0 THEN Second ELSE r]

\* Every(d): d truncated toward zero to a multiple of a second; one second
\* when the truncated value is zero
Every(d) ==
    LET t == DurationTruncate(d, Second)
    IN  [kind |-> "every", duration |-> IF t = 0 THEN Second ELSE t]

\* everyScheduler.Next(prev)
EveryNext(s, prev) == TimeTruncate(prev + s.duration, Second)

\* time.ParseDuration on the duration literals the model draws; "1x" and ""
\* stand for what ParseDuration rejects
DurationLiterals ==
    {"300ms", "1s", "1500ms", "2s", "0s", "-300ms", "-1s", "-1500ms", "-5s", "1x", ""}

ParseDuration(s) ==
    CASE s = "300ms"   -> [ok |-> TRUE, d |-> 300]
      [] s = "1s"      -> [ok |-> TRUE, d |-> 1000]
      [] s = "1500ms"  -> [ok |-> TRUE, d |-> 1500]
      [] s = "2s"      -> [ok |-> TRUE, d |-> 2000]
      [] s = "0s"      -> [ok |-> TRUE, d |-> 0]
      [] s = "-300ms"  -> [ok |-> TRUE, d |-> -300]
      [] s = "-1s"     -> [ok |-> TRUE, d |-> -1000]
      [] s = "-1500ms" -> [ok |-> TRUE, d |-> -1500]
      [] s = "-5s"     -> [ok |-> TRUE, d |-> -5000]
      [] OTHER         -> [ok |-> FALSE, d |-> 0]

\* the cron expressions the model draws: "*/n * * * * * *" (every n-th
\* second) for the n below, and one expression cronexpr rejects
CronLiterals == {"* * * * * * *", "*/2 * * * * * *", "bogus"}

CronParse(s) ==
    CASE s = "* * * * * * *"   -> [ok |-> TRUE, sched |-> [kind |-> "cron", every |-> 1]]
      [] s = "*/2 * * * * * *" -> [ok |-> TRUE, sched |-> [kind |-> "cron", every |-> 2]]
      [] OTHER                 -> [ok |-> FALSE, sched |-> [kind |-> "none"]]

\* cronexpr.Expression.Next for "*/n * * * * * *": the earliest whole second
\* that is a multiple of n seconds and strictly after prev
CronNext(s, prev) ==
    LET p == s.every * Second
    IN  (prev - (prev % p)) + p

\* An expression is the text after an optional "@every" prefix:
\* [every |-> strings.HasPrefix(expr, "@every"), rest |-> the trimmed rest]
Exprs ==
    [every : {TRUE}, rest : DurationLiterals] \cup [every : {FALSE}, rest : CronLiterals]

\* Parse(expr): (Schedule, error)
Parse(expr) ==
    IF expr.every
    THEN LET r == ParseDuration(expr.rest)
         IN  IF ~r.ok THEN [err |-> TRUE, sched |-> [kind |-> "none"]]
                      ELSE [err |-> FALSE, sched |-> Every(r.d)]
    ELSE LET r == CronParse(expr.rest)
         IN  [err |-> ~r.ok, sched |-> r.sched]

\* Schedule.Next(prev), dispatched on the variant
ScheduleNext(s, prev) ==
    IF s.kind = "every" THEN EveryNext(s, prev) ELSE CronNext(s, prev)

----------------------------------------------------------------------------
(* SpecSched: the schedule functions applied to drawn inputs *)

\* durations are drawn on a grid of Grain ms, from -MaxDurSteps to MaxDurSteps
Grain == 100
MaxDurSteps == 50
\* instants are drawn on the same grid, from 0 to MaxPrevSteps
MaxPrevSteps == 25

Durations == {k * Grain : k \in (0 - MaxDurSteps)..MaxDurSteps}
Instants == {k * Grain : k \in 0..MaxPrevSteps}

NoCalc == [pc |-> "off"]

\* the job-side variables, unused by SpecSched and SpecReg
JobIdle ==
    /\ now = 0
    /\ cfg = [layout |-> "none"]
    /\ chain = <<>>
    /\ handle = <<>>
    /\ stopped = <<>>
    /\ starter = <<>>
    /\ stopper = <<>>
    /\ sems = <<>>
    /\ crashed = FALSE

NoReg == [pc |-> "off"]

InitSched ==
    /\ calc \in [pc : {"every"}, d : Durations, prev : Instants]
                \cup [pc : {"parse"}, expr : Exprs, prev : Instants]
    /\ reg = NoReg
    /\ JobIdle

\* s := Every(d); s.Next(prev)
CalcEvery ==
    /\ calc.pc = "every"
    /\ LET s == Every(calc.d)
       IN  calc' = [pc |-> "done", from |-> "every", d |-> calc.d, prev |-> calc.prev,
                    err |-> FALSE, sched |-> s, next |-> ScheduleNext(s, calc.prev)]
    /\ UNCHANGED <<reg, jobVars>>

\* s, err := Parse(expr); if err == nil, s.Next(prev)
CalcParse ==
    /\ calc.pc = "parse"
    /\ LET r == Parse(calc.expr)
       IN  calc' = [pc |-> "done", from |-> "parse", expr |-> calc.expr, prev |-> calc.prev,
                    err |-> r.err, sched |-> r.sched,
                    next |-> IF r.err THEN 0 ELSE ScheduleNext(r.sched, calc.prev)]
    /\ UNCHANGED <<reg, jobVars>>

NextSched == CalcEvery \/ CalcParse

SpecSched == InitSched /\ [][NextSched]_vars

\* the duration Every was given: the drawn one, or the one Parse read
CalcD == IF calc.from = "every" THEN calc.d ELSE ParseDuration(calc.expr.rest).d

CalcIsEvery == calc.pc = "done" /\ ~calc.err /\ calc.sched.kind = "every"

Max(a, b) == IF a >= b THEN a ELSE b

\* C9: for every Schedule that Parse or Every returns and every instant t,
\* Next(t) is strictly greater than t, also for zero and negative durations
C9_NextStrictlyAfter ==
    (calc.pc = "done" /\ ~calc.err) => calc.next > calc.prev

\* C10: for every d >= 0 the step of Every(d) is max(1s, d floored to whole
\* seconds), never rounded up, and Next(prev) is prev + step floored to the
\* whole second
C10_EveryFloors ==
    (CalcIsEvery /\ CalcD >= 0) =>
        LET step == Max(Second, (CalcD \div Second) * Second)
        IN  /\ calc.sched.duration = step
            /\ calc.next = ((calc.prev + step) \div Second) * Second

\* Every(1500ms) has been applied to an instant that is not a whole second
C10_Witness ==
    /\ CalcIsEvery
    /\ calc.from = "every"
    /\ calc.d = 1500
    /\ calc.sched.duration = Second
    /\ calc.prev % Second # 0
    /\ calc.next = calc.prev - (calc.prev % Second) + Second

----------------------------------------------------------------------------
(* The registry: Cron.jobs, Add, AddJob (cron.go) *)

Names == {"a", "b"}

\* the longest batch AddJob is given
MaxBatch == 2

\* the expressions given at registration: two that parse and one that does not
RegExprs ==
    { [every |-> TRUE, rest |-> "1s"],
      [every |-> FALSE, rest |-> "*/2 * * * * * *"],
      [every |-> FALSE, rest |-> "bogus"] }

\* the task functions handed to Add
Tasks == {"t1", "t2"}

\* what AddJob is given for one Job besides its name: Expr, Task, Handler
\* ("" stands for a nil func)
JobSpecs ==
    { [Expr |-> [every |-> TRUE, rest |-> "1s"], Task |-> "t1", Handler |-> ""],
      [Expr |-> [every |-> FALSE, rest |-> "*/2 * * * * * *"], Task |-> "t2", Handler |-> "h2"],
      [Expr |-> [every |-> FALSE, rest |-> "bogus"], Task |-> "t1", Handler |-> ""] }

Job(name, spec) ==
    [Name |-> name, Expr |-> spec.Expr, Task |-> spec.Task, Handler |-> spec.Handler]

Batches ==
    UNION { [1..n -> {Job(name, spec) : name \in Names, spec \in JobSpecs}] : n \in 1..MaxBatch }

NoJob == [present |-> FALSE]

\* newJob(name, task, schedule, locker, opts): unarmed, timer nil, stopped 0
newJob(name, task, schedule) ==
    [present |-> TRUE, name |-> name, task |-> task, schedule |-> schedule]

RetNil == [kind |-> "nil", job |-> ""]
RetPanic == [kind |-> "panic", job |-> ""]
ErrAlreadyExists(name) == [kind |-> "ErrAlreadyExists", job |-> name]

\* a variant of Add that stores the job before looking the name up
CronAddOverwrite(jobs, name, expr, task) ==
    LET p == Parse(expr)
    IN  IF p.err THEN [jobs |-> jobs, ret |-> RetPanic]
        ELSE [jobs |-> [jobs EXCEPT ![name] = newJob(name, [kind |-> "task", fn |-> task], p.sched)],
              ret |-> IF jobs[name].present THEN ErrAlreadyExists("") ELSE RetNil]

\* Cron.Add(name, expr, task): the registry after the call and what the call
\* returns; MustParse panics before the map is assigned
CronAdd(jobs, name, expr, task) ==
    IF jobs[name].present
    THEN [jobs |-> jobs, ret |-> ErrAlreadyExists("")]
    ELSE LET p == Parse(expr)
         IN  IF p.err
             THEN [jobs |-> jobs, ret |-> RetPanic]
             ELSE [jobs |-> [jobs EXCEPT ![name] = newJob(name, [kind |-> "task", fn |-> task], p.sched)],
                   ret |-> RetNil]

\* AddJob's first loop: the first name of the batch that is in the registry
\* (0 when there is none)
RECURSIVE FirstExisting(_, _, _)
FirstExisting(jobs, batch, i) ==
    IF i > Len(batch) THEN 0
    ELSE IF jobs[batch[i].Name].present THEN i
    ELSE FirstExisting(jobs, batch, i + 1)

\* the task AddJob stores: the Handler wrapped when there is one, else Task
StoredTask(j) ==
    IF j.Handler # "" THEN [kind |-> "handler", fn |-> j.Handler]
    ELSE [kind |-> "task", fn |-> j.Task]

\* AddJob's second loop from index i: each Job is parsed and stored in turn
RECURSIVE AddJobStore(_, _, _)
AddJobStore(jobs, batch, i) ==
    IF i > Len(batch) THEN [jobs |-> jobs, ret |-> RetNil]
    ELSE LET j == batch[i]
             p == Parse(j.Expr)
         IN  IF p.err
             THEN [jobs |-> jobs, ret |-> RetPanic]
             ELSE AddJobStore([jobs EXCEPT ![j.Name] = newJob(j.Name, StoredTask(j), p.sched)],
                              batch, i + 1)

\* a variant of AddJob without the first loop
CronAddJobNoCheck(jobs, batch) == AddJobStore(jobs, batch, 1)

\* Cron.AddJob(job...)
CronAddJob(jobs, batch) ==
    LET e == FirstExisting(jobs, batch, 1)
    IN  IF e # 0
        THEN [jobs |-> jobs, ret |-> ErrAlreadyExists(batch[e].Name)]
        ELSE AddJobStore(jobs, batch, 1)

InitReg ==
    /\ reg = [pc |-> "new", jobs |-> [n \in Names |-> NoJob]]
    /\ calc = NoCalc
    /\ JobIdle

\* a call of c.Add(name, expr, task)
Add ==
    /\ reg.pc # "off"
    /\ \E name \in Names, expr \in RegExprs, task \in Tasks :
         LET r == CronAdd(reg.jobs, name, expr, task)
         IN  reg' = [pc |-> "Add", jobs |-> r.jobs, ret |-> r.ret, before |-> reg.jobs,
                     name |-> name, expr |-> expr, task |-> task]
    /\ UNCHANGED <<calc, jobVars>>

\* a call of c.AddJob(batch...)
AddJob ==
    /\ reg.pc # "off"
    /\ \E batch \in Batches :
         LET r == CronAddJob(reg.jobs, batch)
         IN  reg' = [pc |-> "AddJob", jobs |-> r.jobs, ret |-> r.ret, before |-> reg.jobs,
                     batch |-> batch]
    /\ UNCHANGED <<calc, jobVars>>

NextReg == Add \/ AddJob

SpecReg == InitReg /\ [][NextReg]_vars

----------------------------------------------------------------------------
(* Claims about the registry *)

\* the job c.jobs holds under a name after entry i of the batch was stored
JobOf(j) == newJob(j.Name, StoredTask(j), Parse(j.Expr).sched)

Malformed(expr) == Parse(expr).err

\* C6: Add with a name that is already registered returns AlreadyExists and
\* leaves the registry as it was: the same names, and the job under that name
\* keeps its schedule and task
C6_AddDuplicate ==
    (reg.pc = "Add" /\ reg.before[reg.name].present) =>
        /\ reg.ret.kind = "ErrAlreadyExists"
        /\ reg.jobs = reg.before

\* Add was called with a registered name and with another schedule and task
\* than the ones stored under it
C6_Witness ==
    /\ reg.pc = "Add"
    /\ reg.before[reg.name].present
    /\ ~Malformed(reg.expr)
    /\ reg.before[reg.name].schedule # Parse(reg.expr).sched
    /\ reg.before[reg.name].task.fn # reg.task
    /\ reg.ret.kind = "ErrAlreadyExists"

\* a name of the batch is in the registry, or is twice in the batch
BatchCollides(before, batch) ==
    \/ \E i \in 1..Len(batch) : before[batch[i].Name].present
    \/ \E i, k \in 1..Len(batch) : i # k /\ batch[i].Name = batch[k].Name

\* C7: AddJob is all-or-nothing: when a name of the batch duplicates another
\* name of the batch or a registered name, AddJob returns AlreadyExists and
\* the registry is as before; otherwise every job of the batch is stored
\* (stated for the batches whose expressions all parse)
C7_AddJobAllOrNothing ==
    (reg.pc = "AddJob" /\ \A i \in 1..Len(reg.batch) : ~Malformed(reg.batch[i].Expr)) =>
        IF BatchCollides(reg.before, reg.batch)
        THEN reg.ret.kind = "ErrAlreadyExists" /\ reg.jobs = reg.before
        ELSE /\ reg.ret.kind = "nil"
             /\ \A i \in 1..Len(reg.batch) : reg.jobs[reg.batch[i].Name] = JobOf(reg.batch[i])

\* the last call was given an expression that does not parse
CallMalformed ==
    \/ reg.pc = "Add" /\ Malformed(reg.expr)
    \/ reg.pc = "AddJob" /\ \E i \in 1..Len(reg.batch) : Malformed(reg.batch[i].Expr)

\* C8: a call of Add or AddJob given an expression that does not parse
\* reports the failure as an error value (it neither returns nil nor panics)
\* and leaves the registry unchanged: no entry of the batch is stored
C8_ParseFailureReturned ==
    CallMalformed =>
        /\ reg.ret.kind \notin {"nil", "panic"}
        /\ reg.jobs = reg.before

----------------------------------------------------------------------------
(* Jobs: the self-rescheduling timer (cron.go) *)

\* the clock advances by Quantum ms at a time; SpecJob runs it for MaxTicks
\* steps, SpecMulti for MultiTicks steps, SpecPool for PoolTicks steps,
\* SpecEarly for EarlyTicks steps, SpecRestart for RestartTicks steps,
\* SpecHalt for HaltTicks steps and, while a stopped job has a timer waiting,
\* for up to DrainTicks steps more
Quantum == 1000
MaxTicks == 2
MultiTicks == 4
HaltTicks == 1
DrainTicks == 2
PoolTicks == 2
EarlyTicks == 1
RestartTicks == 2

\* Options.lockTTL(): one second for nil Options, else the field as it is
lockTTL(o) == IF o.isNil THEN Second ELSE o.LockTTL

\* Options.errHandler(): a no-op for nil Options, else the field as it is,
\* which is a nil func when the field was left unset
errHandler(o) == IF o.isNil THEN "noop" ELSE IF o.ErrHandler THEN "set" ELSE "nil"

OptsNil == [isNil |-> TRUE, LockTTL |-> 0, ErrHandler |-> FALSE]
Opts(ttl, eh) == [isNil |-> FALSE, LockTTL |-> ttl, ErrHandler |-> eh]

\* &Options{}: LockTTL and ErrHandler keep their zero values
OptsUnset == Opts(0, FALSE)

JobIds == DOMAIN cfg.job
CronIds == {cfg.job[j].cron : j \in JobIds}
JobsOf(c) == {j \in JobIds : cfg.job[j].cron = c}

\* a timer created by time.AfterFunc together with the fired-procedure it
\* runs: st is the timer (armed, fired, stopped), pc the procedure's position,
\* ttl the ttl its Lock call was made with (-1: no Lock call has returned),
\* post whether it was armed after job.Stop had returned, early whether
\* SemaphoreLocker granted it the lock before the ttl of the grant before had
\* elapsed, raced whether job.Stop stored the flag between the firing of the
\* timer and the stopped check
NewTimer(deadline, by) ==
    [deadline |-> deadline, st |-> "armed", pc |-> "idle", by |-> by,
     halted |-> FALSE, ok |-> FALSE, err |-> FALSE, late |-> FALSE, blocked |-> -1,
     ttl |-> -1, post |-> FALSE, early |-> FALSE, raced |-> FALSE,
     ran |-> FALSE, failed |-> FALSE, errs |-> {},
     pend |-> FALSE, after |-> FALSE]

\* the positions of a fired-procedure between its stopped check and the
\* start of its task
PastCheck == {"schedule", "store", "lock", "handle", "task"}

InitJobVars ==
    /\ now = 0
    /\ chain = [j \in JobIds |-> <<>>]
    /\ handle = [j \in JobIds |-> 0]
    /\ stopped = [j \in JobIds |-> FALSE]
    /\ starter = [c \in CronIds |-> [pc |-> "idle", todo |-> JobsOf(c), j |-> 0, t |-> 0, k |-> 0,
                                     again |-> FALSE]]
    /\ stopper = [c \in CronIds |-> [pc |-> "idle", todo |-> JobsOf(c), j |-> 0, t |-> 0,
                                     afterStart |-> FALSE, returned |-> {}, cancelled |-> {},
                                     steps |-> 0]]
    /\ sems = [n \in {cfg.job[j].name : j \in JobIds} |->
                  [present |-> FALSE, held |-> FALSE, releaseAt |-> 0, holder |-> -1,
                   acquired |-> 0, released |-> 0]]
    /\ crashed = FALSE

\* the clock is past the horizon and a job that Stop() has returned for has
\* a timer waiting for a later instant; the clock then runs on, for cfg.drain
\* at most
Draining ==
    /\ now < cfg.horizon + cfg.drain
    /\ \E j \in JobIds :
         /\ j \in stopper[cfg.job[j].cron].returned
         /\ \E k \in 1..Len(chain[j]) :
              chain[j][k].st = "armed" /\ chain[j][k].deadline > now

\* the clock advances
Tick ==
    /\ now < cfg.horizon \/ Draining
    /\ now' = now + Quantum
    /\ UNCHANGED <<calc, reg, cfg, chain, handle, stopped, starter, stopper, sems, crashed>>

\* job.Schedule(prev) up to time.AfterFunc: the timer for Next(prev) is armed
AfterFunc(j, prev, by) ==
    [chain EXCEPT ![j] = Append(@, [NewTimer(ScheduleNext(cfg.job[j].schedule, prev), by)
                                       EXCEPT !.post = j \in stopper[cfg.job[j].cron].returned])]

\* Cron.Start: now := time.Now()
StartBegin(c) ==
    /\ ~crashed
    /\ starter[c].pc = "idle"
    /\ starter' = [starter EXCEPT ![c].pc = "loop", ![c].t = now]
    /\ UNCHANGED <<calc, reg, now, cfg, chain, handle, stopped, stopper, sems, crashed>>

\* a variant of Cron.Start that reads the clock anew for each job
StartArmReadsClock(c) ==
    /\ ~crashed
    /\ starter[c].pc = "loop"
    /\ \E j \in starter[c].todo :
         /\ chain' = AfterFunc(j, now, 0)
         /\ starter' = [starter EXCEPT ![c].pc = "store", ![c].j = j,
                                       ![c].k = Len(chain[j]) + 1]
    /\ UNCHANGED <<calc, reg, now, cfg, handle, stopped, stopper, sems, crashed>>

\* Cron.Start: job.Schedule(now) for the next job of the map, up to AfterFunc
StartArm(c) ==
    /\ ~crashed
    /\ starter[c].pc = "loop"
    /\ \E j \in starter[c].todo :
         /\ chain' = AfterFunc(j, starter[c].t, 0)
         /\ starter' = [starter EXCEPT ![c].pc = "store", ![c].j = j,
                                       ![c].k = Len(chain[j]) + 1]
    /\ UNCHANGED <<calc, reg, now, cfg, handle, stopped, stopper, sems, crashed>>

\* Cron.Start: the atomic.StorePointer that ends job.Schedule
StartStore(c) ==
    /\ ~crashed
    /\ starter[c].pc = "store"
    /\ handle' = [handle EXCEPT ![starter[c].j] = starter[c].k]
    /\ starter' = [starter EXCEPT
                     ![c].todo = @ \ {starter[c].j},
                     ![c].pc = IF starter[c].todo = {starter[c].j} THEN "done" ELSE "loop"]
    /\ UNCHANGED <<calc, reg, now, cfg, chain, stopped, stopper, sems, crashed>>

\* a variant of the runtime with one worker for all fired-procedures: no
\* timer fires while a task is running
FireWhenNoTaskRuns(j, k) ==
    /\ ~crashed
    /\ chain[j][k].st = "armed"
    /\ now >= chain[j][k].deadline
    /\ \A i \in JobIds : \A n \in 1..Len(chain[i]) : chain[i][n].pc # "run"
    /\ chain' = [chain EXCEPT ![j][k].st = "fired", ![j][k].pc = "check"]
    /\ UNCHANGED <<calc, reg, now, cfg, handle, stopped, starter, stopper, sems, crashed>>

\* the runtime fires an armed timer whose deadline has come and starts its
\* fired-procedure
Fire(j, k) ==
    /\ ~crashed
    /\ chain[j][k].st = "armed"
    /\ now >= chain[j][k].deadline
    /\ chain' = [chain EXCEPT ![j][k].st = "fired", ![j][k].pc = "check"]
    /\ UNCHANGED <<calc, reg, now, cfg, handle, stopped, starter, stopper, sems, crashed>>

\* a variant of the stopped check that never returns early
FiredCheckIgnoringFlag(j, k) ==
    /\ ~crashed
    /\ chain[j][k].pc = "check"
    /\ chain' = [chain EXCEPT ![j][k].pc = "schedule"]
    /\ UNCHANGED <<calc, reg, now, cfg, handle, stopped, starter, stopper, sems, crashed>>

\* a variant of the fired-procedure that goes from the stopped check to the
\* Lock call without j.Schedule(next)
FiredCheckNoRearm(j, k) ==
    /\ ~crashed
    /\ chain[j][k].pc = "check"
    /\ chain' = [chain EXCEPT ![j][k].pc = IF stopped[j] THEN "done" ELSE "lock",
                              ![j][k].halted = stopped[j]]
    /\ UNCHANGED <<calc, reg, now, cfg, handle, stopped, starter, stopper, sems, crashed>>

\* a variant of the stopped check that reads the flag and goes on all the same
FiredCheckNoReturn(j, k) ==
    /\ ~crashed
    /\ chain[j][k].pc = "check"
    /\ chain' = [chain EXCEPT ![j][k].pc = "schedule", ![j][k].halted = stopped[j]]
    /\ UNCHANGED <<calc, reg, now, cfg, handle, stopped, starter, stopper, sems, crashed>>

\* the fired-procedure: if atomic.LoadInt32(&j.stopped) == 1 { return }
FiredCheck(j, k) ==
    /\ ~crashed
    /\ chain[j][k].pc = "check"
    /\ chain' = [chain EXCEPT ![j][k].pc = IF stopped[j] THEN "done" ELSE "schedule",
                              ![j][k].halted = stopped[j]]
    /\ UNCHANGED <<calc, reg, now, cfg, handle, stopped, starter, stopper, sems, crashed>>

\* a variant of the fired-procedure that makes the j.Schedule(next) call twice
FiredScheduleTwice(j, k) ==
    /\ ~crashed
    /\ chain[j][k].pc = "schedule"
    /\ chain' = [AfterFunc(j, chain[j][k].deadline, k) EXCEPT
                    ![j] = Append([@ EXCEPT ![k].pc = "store"], @[Len(@)])]
    /\ UNCHANGED <<calc, reg, now, cfg, handle, stopped, starter, stopper, sems, crashed>>

\* a variant of the fired-procedure that re-arms from the current time
FiredScheduleFromNow(j, k) ==
    /\ ~crashed
    /\ chain[j][k].pc = "schedule"
    /\ chain' = [AfterFunc(j, now, k) EXCEPT ![j][k].pc = "store"]
    /\ UNCHANGED <<calc, reg, now, cfg, handle, stopped, starter, stopper, sems, crashed>>

\* the fired-procedure: j.Schedule(next) up to time.AfterFunc
FiredSchedule(j, k) ==
    /\ ~crashed
    /\ chain[j][k].pc = "schedule"
    /\ chain' = [AfterFunc(j, chain[j][k].deadline, k) EXCEPT ![j][k].pc = "store"]
    /\ UNCHANGED <<calc, reg, now, cfg, handle, stopped, starter, stopper, sems, crashed>>

\* the timer a fired-procedure armed
ArmedBy(j, k) == CHOOSE n \in 1..Len(chain[j]) : chain[j][n].by = k

\* the fired-procedure: the atomic.StorePointer that ends j.Schedule(next)
FiredStore(j, k) ==
    /\ ~crashed
    /\ chain[j][k].pc = "store"
    /\ handle' = [handle EXCEPT ![j] = ArmedBy(j, k)]
    /\ chain' = [chain EXCEPT ![j][k].pc = "lock"]
    /\ UNCHANGED <<calc, reg, now, cfg, stopped, starter, stopper, sems, crashed>>

\* a variant of Lock that grants the lock to every caller
LockAlwaysGranted(j) == {[ok |-> TRUE, err |-> FALSE]}

\* a variant of Lock that refuses the lock to every caller
LockNeverGranted(j) == {[ok |-> FALSE, err |-> FALSE]}

\* what locker.Lock(name, ttl) can return, by the Locker in use:
\*   nil        NilLocker: always (true, nil)
\*   semaphore  SemaphoreLocker: TryAcquire of the name's semaphore, never an error
\*   redis      redislocker: (true, nil), (false, nil) for ErrNotObtained, (false, err)
\*   custom     any implementation of the Locker interface
LockOutcomes(j) ==
    CASE cfg.locker = "nil" -> {[ok |-> TRUE, err |-> FALSE]}
      [] cfg.locker = "semaphore" -> {[ok |-> ~sems[cfg.job[j].name].held, err |-> FALSE]}
      [] cfg.locker = "redis" ->
           {[ok |-> TRUE, err |-> FALSE], [ok |-> FALSE, err |-> FALSE], [ok |-> FALSE, err |-> TRUE]}
      [] OTHER -> [ok : BOOLEAN, err : BOOLEAN]

\* SemaphoreLocker.Lock: the semaphore is created on first use; a successful
\* TryAcquire arms the release for ttl from now
\* (holder is the activation instant the holder took it for)
SemAfterLock(j, k, r) ==
    IF cfg.locker # "semaphore" THEN sems
    ELSE [sems EXCEPT ![cfg.job[j].name] =
            IF r.ok THEN [present |-> TRUE, held |-> TRUE, releaseAt |-> now + lockTTL(cfg.opts),
                          holder |-> chain[j][k].deadline,
                          acquired |-> @.acquired + 1, released |-> @.released]
            ELSE [@ EXCEPT !.present = TRUE]]

\* SemaphoreLocker grants the lock while the ttl of its last grant for the
\* name has not elapsed
GrantedEarly(j, r) ==
    /\ cfg.locker = "semaphore"
    /\ r.ok
    /\ sems[cfg.job[j].name].acquired > 0
    /\ now < sems[cfg.job[j].name].releaseAt

\* the activation instant of the holder that made a Lock call fail (-1: none)
BlockedBy(j, r) ==
    IF cfg.locker = "semaphore" /\ ~r.ok THEN sems[cfg.job[j].name].holder ELSE -1

\* a variant of the fired-procedure that goes on to j.task() whatever ok is
FiredLockAlwaysRuns(j, k) ==
    /\ ~crashed
    /\ chain[j][k].pc = "lock"
    /\ \E r \in LockOutcomes(j) :
         /\ chain' = [chain EXCEPT ![j][k] =
               [@ EXCEPT !.ok = r.ok, !.err = r.err, !.ttl = lockTTL(cfg.opts),
                         !.late = now - chain[j][k].deadline >= lockTTL(cfg.opts),
                         !.blocked = BlockedBy(j, r), !.early = GrantedEarly(j, r),
                         !.pc = IF r.err THEN "handle" ELSE "task"]]
         /\ sems' = SemAfterLock(j, k, r)
    /\ UNCHANGED <<calc, reg, now, cfg, handle, stopped, starter, stopper, crashed>>

\* the fired-procedure: ok, err := j.locker.Lock(j.name, j.opts.lockTTL())
\* returns.  The goroutine goes on to the error callback when err is not nil
\* ("handle"), else to j.task() when ok ("task"), else it ends; timers, Stop
\* and other Lock calls can run before its next statement
FiredLock(j, k) ==
    /\ ~crashed
    /\ chain[j][k].pc = "lock"
    /\ \E r \in LockOutcomes(j) :
         /\ chain' = [chain EXCEPT ![j][k] =
               [@ EXCEPT !.ok = r.ok, !.err = r.err, !.ttl = lockTTL(cfg.opts),
                         !.late = now - chain[j][k].deadline >= lockTTL(cfg.opts),
                         !.blocked = BlockedBy(j, r), !.early = GrantedEarly(j, r),
                         !.pc = IF r.err THEN "handle" ELSE IF r.ok THEN "task" ELSE "done"]]
         /\ sems' = SemAfterLock(j, k, r)
    /\ UNCHANGED <<calc, reg, now, cfg, handle, stopped, starter, stopper, crashed>>

\* the fired-procedure: if err != nil { j.opts.errHandler()(err) }.  The
\* callback is called with Lock's error; calling a nil func panics.  Then the
\* goroutine goes on to j.task() when ok, else it ends
FiredHandle(j, k) ==
    /\ ~crashed
    /\ chain[j][k].pc = "handle"
    /\ LET panics == errHandler(cfg.opts) = "nil"
       IN  /\ chain' = [chain EXCEPT ![j][k] =
                 [@ EXCEPT !.errs = IF panics THEN @ ELSE @ \cup {"lock"},
                           !.pc = IF panics THEN "panic"
                                  ELSE IF chain[j][k].ok THEN "task" ELSE "done"]]
           /\ crashed' = panics
    /\ UNCHANGED <<calc, reg, now, cfg, handle, stopped, starter, stopper, sems>>

\* the fired-procedure: if ok { j.task() }.  The task starts, whatever Stop
\* has done since Lock returned
FiredTask(j, k) ==
    /\ ~crashed
    /\ chain[j][k].pc = "task"
    /\ chain' = [chain EXCEPT ![j][k] =
          [@ EXCEPT !.ran = TRUE,
                    !.after = j \in stopper[cfg.job[j].cron].returned,
                    !.pc = "run"]]
    /\ UNCHANGED <<calc, reg, now, cfg, handle, stopped, starter, stopper, sems, crashed>>

\* what the task can report: a plain Task reports nothing; a Handler returns
\* nil or an error
TaskOutcomes(j) == IF cfg.job[j].task = "handler" THEN {FALSE, TRUE} ELSE {FALSE}

\* the task returns; the wrapper AddJob builds around a Handler passes the
\* Handler's error to c.opts.errHandler(), which panics when it is a nil func
TaskReturn(j, k) ==
    /\ ~crashed
    /\ chain[j][k].pc = "run"
    /\ \E fails \in TaskOutcomes(j) :
         LET panics == fails /\ errHandler(cfg.opts) = "nil"
         IN  /\ chain' = [chain EXCEPT ![j][k] =
                   [@ EXCEPT !.failed = fails,
                             !.errs = IF fails /\ ~panics THEN @ \cup {"task"} ELSE @,
                             !.pc = IF panics THEN "panic" ELSE "done"]]
             /\ crashed' = panics
    /\ UNCHANGED <<calc, reg, now, cfg, handle, stopped, starter, stopper, sems>>

\* job.Stop has returned for job j: the fired-procedures that are past their
\* stopped check and have not started their task are marked
MarkPending(ch, j) ==
    [ch EXCEPT ![j] = [k \in 1..Len(@) |->
        [@[k] EXCEPT !.pend = @ \/ ch[j][k].pc \in PastCheck]]]

\* job.Stop stores the flag for job j: the fired-procedures whose timer has
\* fired and that have not made their stopped check are marked
MarkRaced(ch, j) ==
    [ch EXCEPT ![j] = [k \in 1..Len(@) |->
        [@[k] EXCEPT !.raced = @ \/ ch[j][k].pc = "check"]]]

\* Cron.Stop: job.Stop() for the next job of the map, up to atomic.LoadPointer
StopLoad(c) ==
    /\ ~crashed
    /\ stopper[c].pc \in {"idle", "loop"}
    /\ \E j \in stopper[c].todo :
         stopper' = [stopper EXCEPT ![c].pc = "stop", ![c].j = j, ![c].t = handle[j],
                                    ![c].steps = @ + 1,
                                    ![c].afterStart = IF stopper[c].pc = "idle"
                                                      THEN starter[c].pc = "done" ELSE @]
    /\ UNCHANGED <<calc, reg, now, cfg, chain, handle, stopped, starter, sems, crashed>>

StopNextPc(c) == IF stopper[c].todo = {stopper[c].j} THEN "done" ELSE "loop"

\* a variant of t.Stop() that reports success without cancelling the timer
StopTimerNoCancel(c) ==
    LET j == stopper[c].j
        t == stopper[c].t
    IN  /\ ~crashed
        /\ stopper[c].pc = "stop"
        /\ IF t = 0
           THEN /\ crashed' = TRUE
                /\ stopper' = [stopper EXCEPT ![c].pc = "panic", ![c].steps = @ + 1]
                /\ chain' = chain
           ELSE IF chain[j][t].st = "armed"
           THEN /\ chain' = MarkPending(chain, j)
                /\ stopper' = [stopper EXCEPT ![c].pc = StopNextPc(c), ![c].todo = @ \ {j},
                                              ![c].returned = @ \cup {j},
                                              ![c].cancelled = @ \cup {<<j, t>>},
                                              ![c].steps = @ + 1]
                /\ crashed' = crashed
           ELSE /\ stopper' = [stopper EXCEPT ![c].pc = "flag", ![c].steps = @ + 1]
                /\ UNCHANGED <<chain, crashed>>
        /\ UNCHANGED <<calc, reg, now, cfg, handle, stopped, starter, sems>>

\* a variant of job.Stop that takes a nil timer for one that has fired
StopTimerNilSafe(c) ==
    LET j == stopper[c].j
        t == stopper[c].t
    IN  /\ ~crashed
        /\ stopper[c].pc = "stop"
        /\ IF t # 0 /\ chain[j][t].st = "armed"
           THEN /\ chain' = MarkPending([chain EXCEPT ![j][t].st = "stopped"], j)
                /\ stopper' = [stopper EXCEPT ![c].pc = StopNextPc(c), ![c].todo = @ \ {j},
                                              ![c].returned = @ \cup {j},
                                              ![c].cancelled = @ \cup {<<j, t>>},
                                              ![c].steps = @ + 1]
           ELSE /\ stopper' = [stopper EXCEPT ![c].pc = "flag", ![c].steps = @ + 1]
                /\ chain' = chain
        /\ UNCHANGED <<calc, reg, now, cfg, handle, stopped, starter, sems, crashed>>

\* job.Stop: t.Stop() on the loaded timer. A nil timer is dereferenced and
\* the call panics; an armed timer is cancelled and job.Stop returns; a timer
\* that has fired or was stopped gives false
StopTimer(c) ==
    LET j == stopper[c].j
        t == stopper[c].t
    IN  /\ ~crashed
        /\ stopper[c].pc = "stop"
        /\ IF t = 0
           THEN /\ crashed' = TRUE
                /\ stopper' = [stopper EXCEPT ![c].pc = "panic", ![c].steps = @ + 1]
                /\ chain' = chain
           ELSE IF chain[j][t].st = "armed"
           THEN /\ chain' = MarkPending([chain EXCEPT ![j][t].st = "stopped"], j)
                /\ stopper' = [stopper EXCEPT ![c].pc = StopNextPc(c), ![c].todo = @ \ {j},
                                              ![c].returned = @ \cup {j},
                                              ![c].cancelled = @ \cup {<<j, t>>},
                                              ![c].steps = @ + 1]
                /\ crashed' = crashed
           ELSE /\ stopper' = [stopper EXCEPT ![c].pc = "flag", ![c].steps = @ + 1]
                /\ UNCHANGED <<chain, crashed>>
        /\ UNCHANGED <<calc, reg, now, cfg, handle, stopped, starter, sems>>

\* a variant of job.Stop that returns without storing the stopped flag
StopFlagNoStore(c) ==
    LET j == stopper[c].j
    IN  /\ ~crashed
        /\ stopper[c].pc = "flag"
        /\ chain' = MarkPending(chain, j)
        /\ stopper' = [stopper EXCEPT ![c].pc = StopNextPc(c), ![c].todo = @ \ {j},
                                      ![c].returned = @ \cup {j}, ![c].steps = @ + 1]
        /\ UNCHANGED <<calc, reg, now, cfg, handle, stopped, starter, sems, crashed>>

\* a variant of job.Stop that stores the flag only once no fired-procedure
\* of the job is in flight
StopFlagWaits(c) ==
    LET j == stopper[c].j
    IN  /\ ~crashed
        /\ stopper[c].pc = "flag"
        /\ \A k \in 1..Len(chain[j]) : chain[j][k].pc \in {"idle", "done"}
        /\ stopped' = [stopped EXCEPT ![j] = TRUE]
        /\ chain' = MarkRaced(MarkPending(chain, j), j)
        /\ stopper' = [stopper EXCEPT ![c].pc = StopNextPc(c), ![c].todo = @ \ {j},
                                      ![c].returned = @ \cup {j}, ![c].steps = @ + 1]
        /\ UNCHANGED <<calc, reg, now, cfg, handle, starter, sems, crashed>>

\* job.Stop: atomic.StoreInt32(&j.stopped, 1), after which job.Stop returns
StopFlag(c) ==
    LET j == stopper[c].j
    IN  /\ ~crashed
        /\ stopper[c].pc = "flag"
        /\ stopped' = [stopped EXCEPT ![j] = TRUE]
        /\ chain' = MarkRaced(MarkPending(chain, j), j)
        /\ stopper' = [stopper EXCEPT ![c].pc = StopNextPc(c), ![c].todo = @ \ {j},
                                      ![c].returned = @ \cup {j}, ![c].steps = @ + 1]
        /\ UNCHANGED <<calc, reg, now, cfg, handle, starter, sems, crashed>>

\* a variant of the release that does not wait for ttl to elapse
ReleaseAtOnce(n) ==
    /\ ~crashed
    /\ sems[n].held
    /\ sems' = [sems EXCEPT ![n].held = FALSE, ![n].holder = -1, ![n].released = @ + 1]
    /\ UNCHANGED <<calc, reg, now, cfg, chain, handle, stopped, starter, stopper, crashed>>

\* the release SemaphoreLocker.Lock armed with time.AfterFunc(ttl, ...) runs
Release(n) ==
    /\ ~crashed
    /\ sems[n].held
    /\ now >= sems[n].releaseAt
    /\ sems' = [sems EXCEPT ![n].held = FALSE, ![n].holder = -1, ![n].released = @ + 1]
    /\ UNCHANGED <<calc, reg, now, cfg, chain, handle, stopped, starter, stopper, crashed>>

\* the steps job.Stop takes for one job: the load of the timer handle, the
\* t.Stop() call and the store of the flag
StopStepsPerJob == 3

\* the next step of Cron.Stop
StopStep(c) == StopLoad(c) \/ StopTimer(c) \/ StopFlag(c)

\* the steps of a program whose Locker never returns an error: the error
\* callback is never called for Lock
NextNoLockErr ==
    \/ Tick
    \/ \E c \in CronIds : StartBegin(c)
    \/ \E c \in CronIds : StartArm(c)
    \/ \E c \in CronIds : StartStore(c)
    \/ \E c \in CronIds : StopLoad(c)
    \/ \E c \in CronIds : StopTimer(c)
    \/ \E c \in CronIds : StopFlag(c)
    \/ \E j \in JobIds : \E k \in 1..Len(chain[j]) : Fire(j, k)
    \/ \E j \in JobIds : \E k \in 1..Len(chain[j]) : FiredCheck(j, k)
    \/ \E j \in JobIds : \E k \in 1..Len(chain[j]) : FiredSchedule(j, k)
    \/ \E j \in JobIds : \E k \in 1..Len(chain[j]) : FiredStore(j, k)
    \/ \E j \in JobIds : \E k \in 1..Len(chain[j]) : FiredLock(j, k)
    \/ \E j \in JobIds : \E k \in 1..Len(chain[j]) : FiredTask(j, k)
    \/ \E j \in JobIds : \E k \in 1..Len(chain[j]) : TaskReturn(j, k)

NextJob ==
    \/ NextNoLockErr
    \/ \E j \in JobIds : \E k \in 1..Len(chain[j]) : FiredHandle(j, k)

\* one Cron with one job that runs every second, added as a Handler (which
\* may return nil, as a Task does, or an error), a Locker that may return
\* anything, and the two ways of leaving the options unset: nil Options and
\* &Options{}
InitJob ==
    /\ calc = NoCalc
    /\ reg = NoReg
    /\ cfg \in [layout : {"single"},
                horizon : {MaxTicks * Quantum}, drain : {0},
                locker : {"custom"},
                opts : {OptsNil, OptsUnset},
                job : [{1} -> [cron : {1}, name : {"job"},
                               schedule : {Parse([every |-> TRUE, rest |-> "1s"]).sched},
                               task : {"handler"}]]]
    /\ InitJobVars

SpecJob == InitJob /\ [][NextJob]_vars

\* the goroutines of the fired-procedures are scheduled: a timer that is due
\* fires, and a fired-procedure reaches its Lock call
Proceed ==
    \E j \in JobIds : \E k \in 1..Len(chain[j]) :
        \/ Fire(j, k)
        \/ FiredCheck(j, k)
        \/ FiredSchedule(j, k)
        \/ FiredStore(j, k)

\* one Cron, built with nil Options or with &Options{LockTTL: time.Second,
\* ErrHandler: h}, with one job that runs every second and a Locker that may
\* return anything; the clock does not stop while a stopped
\* job has a timer waiting
InitHalt ==
    /\ calc = NoCalc
    /\ reg = NoReg
    /\ cfg \in [layout : {"single"},
                horizon : {HaltTicks * Quantum}, drain : {DrainTicks * Quantum},
                locker : {"custom"},
                opts : {OptsNil, Opts(Second, TRUE)},
                job : [{1} -> [cron : {1}, name : {"job"},
                               schedule : {Parse([every |-> TRUE, rest |-> "1s"]).sched},
                               task : {"task"}]]]
    /\ InitJobVars

\* the clock advances and the runtime runs the timers and the goroutines of
\* the fired-procedures; a Lock call or a task may never return, and Start
\* and Stop are called when the caller chooses to
SpecHalt == InitHalt /\ [][NextJob]_vars /\ WF_vars(Tick) /\ WF_vars(Proceed)

\* one Cron, built with NilLocker and nil Options, with one job that runs
\* every second
InitNil ==
    /\ calc = NoCalc
    /\ reg = NoReg
    /\ cfg \in [layout : {"single"},
                horizon : {MaxTicks * Quantum}, drain : {0},
                locker : {"nil"},
                opts : {OptsNil},
                job : [{1} -> [cron : {1}, name : {"job"},
                               schedule : {Parse([every |-> TRUE, rest |-> "1s"]).sched},
                               task : {"task", "handler"}]]]
    /\ InitJobVars

SpecNil == InitNil /\ [][NextNoLockErr]_vars

----------------------------------------------------------------------------
(* Claims about one Job *)

CronOf(j) == cfg.job[j].cron

\* job.Stop has returned for job j
StopReturned(j) == j \in stopper[CronOf(j)].returned

\* job.Stop's t.Stop() cancelled timer k of job j: the timer had not fired
Cancelled(j, k) == <<j, k>> \in stopper[CronOf(j)].cancelled

\* the cycles of job j whose task has started
Ran(j) == {k \in 1..Len(chain[j]) : chain[j][k].ran}

\* C2: when Stop() is called on a Job after it was armed and cancels the
\* first timer before it elapses, the task is executed zero times and no
\* fired-procedure of the Job ever starts
C2_StopBeforeFirstFire ==
    \A j \in JobIds :
        Cancelled(j, 1) =>
            /\ Ran(j) = {}
            /\ \A k \in 1..Len(chain[j]) : chain[j][k].pc = "idle"

\* Stop() cancelled the first timer and the clock has reached its deadline
C2_Witness ==
    \E j \in JobIds :
        /\ Cancelled(j, 1)
        /\ StopReturned(j)
        /\ chain[j][1].st = "stopped"
        /\ now >= chain[j][1].deadline
        /\ Ran(j) = {}

\* the cycles of job j whose task started after job.Stop had returned
RanAfterStop(j) == {k \in 1..Len(chain[j]) : chain[j][k].after}

\* C3 as stated: in every interleaving at most one task execution of a Job
\* starts after Stop() has returned (stated for a Stop() that is called after
\* Start() has returned)
C3_AtMostOneAfterStop ==
    \A j \in JobIds :
        stopper[CronOf(j)].afterStart => Cardinality(RanAfterStop(j)) <= 1

\* the fired-procedures of job j that were past their stopped check, with
\* the task not yet started, when job.Stop returned
PendingAtStop(j) == {k \in 1..Len(chain[j]) : chain[j][k].pend}

\* C3 (amended): every task execution that starts after Stop() has returned
\* belongs to a fired-procedure that had already passed its stopped check
\* when Stop() returned, so there are at most as many as there were such
\* fired-procedures in flight: at most one when at most one was in flight
C3_AfterStopOnlyPending ==
    \A j \in JobIds :
        /\ RanAfterStop(j) \subseteq PendingAtStop(j)
        /\ Cardinality(PendingAtStop(j)) <= 1 => Cardinality(RanAfterStop(j)) <= 1

\* Stop() lost the race with a firing timer and set the flag; the
\* fired-procedure that was past its check ran its task after Stop()
\* returned, and the timer it armed fired and halted on the flag
C3_Witness ==
    \E j \in JobIds :
        /\ stopped[j]
        /\ Cardinality(RanAfterStop(j)) = 1
        /\ \E k \in 1..Len(chain[j]) : chain[j][k].halted

\* C4: in every activation in which Lock returns an error, whatever the
\* acquired value, the error is passed to the error callback, the task is not
\* run and the timer of the following activation stays armed (stated for the
\* Options that give an error callback, the error being passed once the
\* fired-procedure is past its call of the callback)
C4_LockErrorSkips ==
    errHandler(cfg.opts) # "nil" =>
        \A j \in JobIds : \A k \in 1..Len(chain[j]) :
            chain[j][k].err =>
                /\ chain[j][k].pc # "handle" => "lock" \in chain[j][k].errs
                /\ ~chain[j][k].ran
                /\ \E n \in 1..Len(chain[j]) : chain[j][n].by = k

\* C5: when the task of an activation reports a failure, the failure is
\* passed to the error callback and the scheduling of the job goes on
C5_TaskErrorNeverHalts ==
    \A j \in JobIds : \A k \in 1..Len(chain[j]) :
        chain[j][k].failed =>
            /\ "task" \in chain[j][k].errs
            /\ chain[j][k].pc = "done"
            /\ ~crashed

----------------------------------------------------------------------------
(* Several Cron instances sharing one SemaphoreLocker *)

\* two Cron instances in one process, built with nil Options (a lock TTL of
\* one second) on one SemaphoreLocker, each holding the job "job" with the
\* expression "*/2 * * * * * *"
InitMulti ==
    /\ calc = NoCalc
    /\ reg = NoReg
    /\ cfg = [layout |-> "shared",
              horizon |-> MultiTicks * Quantum, drain |-> 0,
              locker |-> "semaphore",
              opts |-> OptsNil,
              job |-> [j \in {1, 2} |->
                        [cron |-> j, name |-> "job",
                         schedule |-> Parse([every |-> FALSE, rest |-> "*/2 * * * * * *"]).sched,
                         task |-> "task"]]]
    /\ InitJobVars

NextMulti ==
    \/ Tick
    \/ \E c \in CronIds : StartBegin(c)
    \/ \E c \in CronIds : StartArm(c)
    \/ \E c \in CronIds : StartStore(c)
    \/ \E j \in JobIds : \E k \in 1..Len(chain[j]) : Fire(j, k)
    \/ \E j \in JobIds : \E k \in 1..Len(chain[j]) : FiredCheck(j, k)
    \/ \E j \in JobIds : \E k \in 1..Len(chain[j]) : FiredSchedule(j, k)
    \/ \E j \in JobIds : \E k \in 1..Len(chain[j]) : FiredStore(j, k)
    \/ \E j \in JobIds : \E k \in 1..Len(chain[j]) : FiredLock(j, k)
    \/ \E j \in JobIds : \E k \in 1..Len(chain[j]) : FiredTask(j, k)
    \/ \E j \in JobIds : \E k \in 1..Len(chain[j]) : TaskReturn(j, k)
    \/ \E n \in DOMAIN sems : Release(n)

SpecMulti == InitMulti /\ [][NextMulti]_vars

----------------------------------------------------------------------------
(* Claims about Cron instances sharing a Locker *)

\* the fired-procedures of all Cron instances for the activation instant a
Procs(a) ==
    {p \in UNION {{<<j, k>> : k \in 1..Len(chain[j])} : j \in JobIds} :
        chain[p[1]][p[2]].deadline = a}

\* the activation instants that have a timer
Activations == UNION {{chain[j][k].deadline : k \in 1..Len(chain[j])} : j \in JobIds}

\* the fired-procedure is past its Lock call and what follows it: it has
\* started its task or has ended
Locked(p) == chain[p[1]][p[2]].pc \in {"run", "done"} /\ ~chain[p[1]][p[2]].halted

Executed(a) == {p \in Procs(a) : chain[p[1]][p[2]].ran}

\* every Cron instance has made its Lock call for the activation instant a
AllLocked(a) ==
    \A j \in JobIds : \E p \in Procs(a) : p[1] = j /\ Locked(p)

\* C1 as stated: with Cron instances that share one Locker and hold the same
\* job and schedule, the executions are as many as the activations and never
\* more: no activation instant is executed by two instances, and an
\* activation for which every instance has made its Lock call was executed
C1_ExactlyOncePerActivation ==
    \A a \in Activations :
        /\ Cardinality(Executed(a)) <= 1
        /\ AllLocked(a) => Cardinality(Executed(a)) = 1

\* every Lock call made for the activation instant a was made less than one
\* lock TTL after a
Timely(a) == \A p \in Procs(a) : ~chain[p[1]][p[2]].late

\* no Lock call for the activation instant a failed on a lock that was
\* taken for an earlier activation and not released yet
Unblocked(a) == \A p \in Procs(a) : chain[p[1]][p[2]].blocked \in {-1, a}

\* C1 (amended): when every Lock call for an activation is made less than
\* one lock TTL after the activation instant, no activation instant is
\* executed by two Cron instances; it is executed exactly once when every
\* instance has made its Lock call and none found the lock still held for an
\* earlier activation
C1_AtMostOnceWhenTimely ==
    \A a \in Activations :
        Timely(a) =>
            /\ Cardinality(Executed(a)) <= 1
            /\ (AllLocked(a) /\ Unblocked(a)) => Cardinality(Executed(a)) = 1

\* both Cron instances made their Lock call for one activation instant in
\* time: one ran the task, the other was refused the lock
C1_Witness ==
    \E a \in Activations :
        /\ Timely(a)
        /\ AllLocked(a)
        /\ Cardinality(Procs(a)) = 2
        /\ Cardinality(Executed(a)) = 1
        /\ \E p \in Procs(a) : chain[p[1]][p[2]].blocked = a

----------------------------------------------------------------------------
(* Claims about the Options and the steps of a fired-procedure *)

\* the timers and fired-procedures of all jobs, as <<job, cycle>>
Timers == UNION {{<<j, k>> : k \in 1..Len(chain[j])} : j \in JobIds}

\* the fired-procedure has made its Lock call
LockCalled(j, k) == chain[j][k].ttl # -1

\* the timer the fired-procedure k of job j armed exists
Rearmed(j, k) == \E n \in 1..Len(chain[j]) : chain[j][n].by = k

\* the caller gave no LockTTL: nil Options, or Options with a zero LockTTL
TTLUnset == cfg.opts.isNil \/ cfg.opts.LockTTL = 0

\* the caller gave no ErrHandler: nil Options, or Options with a nil ErrHandler
HandlerUnset == cfg.opts.isNil \/ ~cfg.opts.ErrHandler

\* C11: an option the caller does not set takes its documented default, with
\* nil Options and with Options that leave the field unset: every Lock call
\* is made with a ttl of one second, and an error raised inside a
\* fired-procedure (by Lock or by the task) is absorbed by a no-op callback,
\* so the fired-procedure completes and the timer it armed stays
C11_UnsetOptionsDefault ==
    \A p \in Timers :
        LET j == p[1]
            k == p[2]
        IN  /\ (TTLUnset /\ LockCalled(j, k)) => chain[j][k].ttl = Second
            /\ (HandlerUnset /\ (chain[j][k].err \/ chain[j][k].failed)) =>
                    /\ chain[j][k].pc # "panic"
                    /\ ~crashed
                    /\ Rearmed(j, k)

\* the timer the fired-procedure k of job j armed
NextTimer(j, k) == chain[j][ArmedBy(j, k)]

\* C12: in every fired-procedure that passed the stopped check, the timer of
\* the following cycle is armed, for the next instant of the schedule, before
\* the Lock call is made and before the task starts: whenever the procedure
\* is at its Lock call, has made it, runs its task or has ended in the
\* callback, the timer it armed exists, however slow the Lock call or the
\* task is and whatever they return
C12_RearmBeforeLock ==
    \A p \in Timers :
        LET j == p[1]
            k == p[2]
        IN  (chain[j][k].pc \in {"lock", "run", "panic"} \/ LockCalled(j, k)) =>
                /\ Rearmed(j, k)
                /\ NextTimer(j, k).deadline =
                       ScheduleNext(cfg.job[j].schedule, chain[j][k].deadline)

\* a fired-procedure is still at its Lock call, or had an error from Lock,
\* and the timer it armed has fired in the meantime
C12_Witness ==
    \E p \in Timers :
        LET j == p[1]
            k == p[2]
        IN  /\ chain[j][k].pc = "lock" \/ chain[j][k].err
            /\ Rearmed(j, k)
            /\ NextTimer(j, k).st = "fired"

----------------------------------------------------------------------------
(* Claims about Stop() and the end of a chain *)

\* the live timers of job j: armed, neither fired nor cancelled
Live(j) == {k \in 1..Len(chain[j]) : chain[j][k].st = "armed"}

\* C13: when Stop()'s t.Stop() cancels the timer of any cycle of a Job, the
\* chain is halted from then on (in a Registry that is started once): in
\* every state after the cancellation the cancelled timer is the last of the
\* chain, so no further timer was armed; it never fired, so its
\* fired-procedure never began; and no timer of the Job is live, so none can
\* begin
C13_CancelHaltsChain ==
    \A p \in Timers :
        LET j == p[1]
            k == p[2]
        IN  Cancelled(j, k) =>
                /\ k = Len(chain[j])
                /\ chain[j][k].st = "stopped"
                /\ chain[j][k].pc = "idle"
                /\ Live(j) = {}

\* Stop() cancelled the timer of a later cycle, Cron.Stop has returned, the
\* clock has passed the deadline of the cancelled timer, and the
\* fired-procedures that were in flight have ended
C13_Witness ==
    \E p \in Timers :
        LET j == p[1]
            k == p[2]
        IN  /\ k > 1
            /\ Cancelled(j, k)
            /\ stopper[CronOf(j)].pc = "done"
            /\ now >= chain[j][k].deadline
            /\ \A n \in 1..(k - 1) : chain[j][n].pc = "done"

\* C15: a fired-procedure that reads the stopped flag as true at its top
\* does nothing else: it has ended, it armed no timer, it made no Lock call,
\* it called no error callback and it ran no task
C15_HaltedDoesNothing ==
    \A p \in Timers :
        LET j == p[1]
            k == p[2]
        IN  chain[j][k].halted =>
                /\ chain[j][k].pc = "done"
                /\ ~Rearmed(j, k)
                /\ ~LockCalled(j, k)
                /\ chain[j][k].errs = {}
                /\ ~chain[j][k].ran

\* a fired-procedure read the flag as true and ended, and the clock has
\* passed the instant at which the timer it did not arm would be due
C15_Witness ==
    \E p \in Timers :
        LET j == p[1]
            k == p[2]
        IN  /\ chain[j][k].halted
            /\ chain[j][k].pc = "done"
            /\ k = Len(chain[j])
            /\ now >= ScheduleNext(cfg.job[j].schedule, chain[j][k].deadline)

\* C16: in every state of a Job (in a Registry that is started once) at most
\* one of its timers is live, and every timer was armed either by the
\* Schedule call of Start, as the first of the chain, or by the
\* fired-procedure of the timer before it, which had fired
C16_OneLiveTimer ==
    \A j \in JobIds :
        /\ Cardinality(Live(j)) <= 1
        /\ \A k \in 1..Len(chain[j]) :
              IF k = 1 THEN chain[j][k].by = 0
              ELSE /\ chain[j][k].by = k - 1
                   /\ chain[j][k - 1].st = "fired"
                   /\ chain[j][k - 1].pc # "idle"

\* the third timer of a chain is live while the fired-procedures of the two
\* before it are still in flight
C16_Witness ==
    \E j \in JobIds :
        /\ Len(chain[j]) = 3
        /\ Live(j) = {3}
        /\ chain[j][1].pc \in {"lock", "run"}
        /\ chain[j][2].pc \in {"store", "lock", "run"}

\* C17: the task of a Job runs in an activation only if the Lock call of
\* that activation returned acquired = true; an activation whose Lock call
\* returned (false, nil) runs no task, calls no error callback, ends, and
\* leaves the timer it armed in place
C17_TaskOnlyWithLock ==
    \A p \in Timers :
        LET j == p[1]
            k == p[2]
        IN  /\ chain[j][k].ran => (LockCalled(j, k) /\ chain[j][k].ok)
            /\ (LockCalled(j, k) /\ ~chain[j][k].ok /\ ~chain[j][k].err) =>
                    /\ ~chain[j][k].ran
                    /\ chain[j][k].errs = {}
                    /\ chain[j][k].pc = "done"
                    /\ Rearmed(j, k)

\* one activation was refused the lock without an error and ran nothing;
\* the timer it armed fired and the following activation got the lock and
\* ran the task
C17_Witness ==
    \E p \in Timers :
        LET j == p[1]
            k == p[2]
        IN  /\ LockCalled(j, k) /\ ~chain[j][k].ok /\ ~chain[j][k].err
            /\ Rearmed(j, k)
            /\ NextTimer(j, k).ok
            /\ NextTimer(j, k).ran

\* the timers of job j that were armed after job.Stop had returned
ArmedAfterStop(j) == {k \in 1..Len(chain[j]) : chain[j][k].post}

\* job j is halted: it has no live timer
Halted(j) == Live(j) = {}

\* every job that job.Stop has returned for is halted
StoppedJobsHalted == \A j \in JobIds : StopReturned(j) => Halted(j)

\* after job.Stop has returned at most one more timer is armed, and its
\* fired-procedure, if it has begun, has read the flag as true or is about to
AtMostOneMoreTimer ==
    \A j \in JobIds :
        /\ Cardinality(ArmedAfterStop(j)) <= 1
        /\ \A k \in ArmedAfterStop(j) :
              /\ stopped[j]
              /\ chain[j][k].pc \in {"idle", "check"} \/ chain[j][k].halted

\* C14: after Stop() has returned for an armed Job (in a Registry that is
\* started once) the Job is eventually halted, in every interleaving: at
\* most one more timer is armed, by a fired-procedure that was past its
\* stopped check; the fired-procedure of that timer reads the flag and arms
\* nothing; and from some instant on the Job has no live timer, for ever
C14_EventuallyHalted ==
    /\ []AtMostOneMoreTimer
    /\ <>[]StoppedJobsHalted

\* Stop() set the flag while a fired-procedure was past its stopped check;
\* that procedure armed one more timer after Stop() had returned, the timer
\* fired, its procedure read the flag and ended, and no timer is live
C14_Witness ==
    \E j \in JobIds :
        /\ StopReturned(j)
        /\ stopped[j]
        /\ \E k \in ArmedAfterStop(j) : chain[j][k].halted /\ chain[j][k].pc = "done"
        /\ Live(j) = {}

----------------------------------------------------------------------------
(* One Cron with several jobs *)

PoolJobs == {1, 2}

\* c.jobs after c.Add("a", "@every 1s", t1) and c.Add("b", "*/2 * * * * * *", t2)
\* on a new Cron
PoolRegistry ==
    LET first == CronAdd([n \in Names |-> NoJob], "a", [every |-> TRUE, rest |-> "1s"], "t1")
    IN  CronAdd(first.jobs, "b", [every |-> FALSE, rest |-> "*/2 * * * * * *"], "t2").jobs

\* one Cron built with NilLocker and nil Options that holds the jobs "a" and
\* "b" of PoolRegistry, with the clock running up to horizon
PoolConfig(horizon) ==
    [layout |-> "pool",
     horizon |-> horizon, drain |-> 0,
     locker |-> "nil",
     opts |-> OptsNil,
     job |-> [j \in PoolJobs |->
               LET stored == PoolRegistry[IF j = 1 THEN "a" ELSE "b"]
               IN  [cron |-> 1, name |-> stored.name,
                    schedule |-> stored.schedule,
                    task |-> stored.task.kind]]]

\* one Cron built with NilLocker and nil Options; Add has stored the jobs "a"
\* and "b" of PoolRegistry and Start is yet to be called
InitPool ==
    /\ calc = NoCalc
    /\ reg = NoReg
    /\ cfg = PoolConfig(PoolTicks * Quantum)
    /\ InitJobVars

NextPool ==
    \/ Tick
    \/ \E c \in CronIds : StartBegin(c)
    \/ \E c \in CronIds : StartArm(c)
    \/ \E c \in CronIds : StartStore(c)
    \/ \E j \in JobIds : \E k \in 1..Len(chain[j]) : Fire(j, k)
    \/ \E j \in JobIds : \E k \in 1..Len(chain[j]) : FiredCheck(j, k)
    \/ \E j \in JobIds : \E k \in 1..Len(chain[j]) : FiredSchedule(j, k)
    \/ \E j \in JobIds : \E k \in 1..Len(chain[j]) : FiredStore(j, k)
    \/ \E j \in JobIds : \E k \in 1..Len(chain[j]) : FiredLock(j, k)
    \/ \E j \in JobIds : \E k \in 1..Len(chain[j]) : FiredTask(j, k)
    \/ \E j \in JobIds : \E k \in 1..Len(chain[j]) : TaskReturn(j, k)

\* Cron.Start, once called, runs to its end
StartProceeds == \E c \in CronIds : StartArm(c) \/ StartStore(c)

\* the Lock call of NilLocker returns at once, and the goroutine goes on to
\* call j.task()
LockReturns == \E j \in JobIds : \E k \in 1..Len(chain[j]) : FiredLock(j, k)
TaskStarts == \E j \in JobIds : \E k \in 1..Len(chain[j]) : FiredTask(j, k)

\* the clock advances, the runtime runs the timers and the goroutines, and
\* NilLocker.Lock returns; a task may never return
SpecPool ==
    /\ InitPool /\ [][NextPool]_vars
    /\ WF_vars(Tick) /\ WF_vars(StartProceeds) /\ WF_vars(Proceed) /\ WF_vars(LockReturns)
    /\ WF_vars(TaskStarts)

\* timer k of job j is armed for an instant the clock reaches
Due(j, k) == k <= Len(chain[j]) /\ chain[j][k].deadline <= cfg.horizon

\* timer k of job j has fired, its fired-procedure has armed the next timer
\* and made its Lock call, and its task has started
Proceeded(j, k) ==
    /\ k <= Len(chain[j])
    /\ chain[j][k].st = "fired"
    /\ Rearmed(j, k)
    /\ LockCalled(j, k)
    /\ chain[j][k].ran

\* C18: a task that never returns blocks only the fired-procedure of its
\* own cycle: whether the tasks return or not, every timer of every Job of
\* the Registry that is armed for an instant the clock reaches fires, and
\* its fired-procedure arms the next timer, makes its Lock call and starts
\* its task
C18_StuckTaskBlocksOnlyItsCycle ==
    \A j \in PoolJobs : \A k \in 1..PoolTicks : Due(j, k) ~> Proceeded(j, k)

\* the task of the first cycle of one Job has not returned, and meanwhile
\* the second cycle of that Job and a cycle of the other Job have fired and
\* started their tasks
C18_Witness ==
    \E j \in JobIds : \E i \in JobIds \ {j} :
        /\ Len(chain[j]) >= 1
        /\ chain[j][1].pc = "run"
        /\ Proceeded(j, 2)
        /\ Proceeded(i, 1)

\* Cron.Start has not been called on Cron c
NotStarted(c) == starter[c].pc = "idle"

\* Cron.Start has returned on Cron c
StartReturned(c) == starter[c].pc = "done"

\* C20: registration arms nothing and Start arms everything: in the Cron
\* that Add has filled, before Start is called no Job has a timer and every
\* timer handle is empty; once Start has returned every Job has a first
\* timer, armed by Start for Next(t) of the Job's own schedule, where t is
\* the one instant Start read when it was called, and a timer handle
C20_StartArmsAll ==
    \A c \in CronIds :
        /\ NotStarted(c) =>
              \A j \in JobsOf(c) : chain[j] = <<>> /\ handle[j] = 0
        /\ StartReturned(c) =>
              \A j \in JobsOf(c) :
                  /\ Len(chain[j]) >= 1
                  /\ chain[j][1].by = 0
                  /\ chain[j][1].deadline = ScheduleNext(cfg.job[j].schedule, starter[c].t)
                  /\ handle[j] # 0

\* Start has returned after the clock moved on between its reading of the
\* clock and the arming of the Jobs, and the first timers of the two Jobs,
\* for different instants, are both still live
C20_Witness ==
    \E c \in CronIds :
        /\ StartReturned(c)
        /\ now > starter[c].t
        /\ \A j \in JobsOf(c) : Live(j) = {1}
        /\ \E i \in JobsOf(c) : \E j \in JobsOf(c) :
              chain[i][1].deadline # chain[j][1].deadline

\* Cron.Stop is in progress on Cron c
Stopping(c) == stopper[c].pc \in {"loop", "stop", "flag"}

\* a fired-procedure of job j is in flight: at its Lock call, at the error
\* callback, about to call its task or in its task
InFlight(j) ==
    {k \in 1..Len(chain[j]) : chain[j][k].pc \in {"lock", "handle", "task", "run"}}

\* C19: Stop() is non-blocking: on a Registry whose Start has returned,
\* Cron.Stop and each job.Stop it calls never wait: in every state in which
\* the call is in progress its next step can be taken, whatever the
\* fired-procedures, Lock calls and tasks in flight are doing, and it takes at
\* most three steps for each Job before it has returned
C19_StopNeverWaits ==
    \A c \in CronIds :
        stopper[c].afterStart =>
            /\ (Stopping(c) /\ ~crashed) => ENABLED StopStep(c)
            /\ stopper[c].steps <= StopStepsPerJob * Cardinality(JobsOf(c))
            /\ stopper[c].pc \in {"idle", "loop", "stop", "flag", "done"}

\* Cron.Stop has returned, having stored the flag, while a fired-procedure of
\* the Job is still at its Lock call or in its task
C19_Witness ==
    \E c \in CronIds :
        /\ stopper[c].afterStart
        /\ stopper[c].pc = "done"
        /\ \E j \in JobsOf(c) : stopped[j] /\ InFlight(j) # {}

----------------------------------------------------------------------------
(* Claims about the deadlines and the timer handle *)

\* schedule.Next applied k times to prev
RECURSIVE NthNext(_, _, _)
NthNext(s, prev, k) ==
    IF k = 0 THEN prev ELSE ScheduleNext(s, NthNext(s, prev, k - 1))

\* C21: the deadlines of a Job's timers are fixed by the schedule alone: the
\* k-th timer of the chain that Start began with prev has the deadline Next
\* applied k times to prev, whenever the timers before it fired and whatever
\* the Lock calls and the tasks of the cycles before it did
C21_DeadlinesBySchedule ==
    \A p \in Timers :
        LET j == p[1]
            k == p[2]
        IN  chain[j][k].deadline = NthNext(cfg.job[j].schedule, starter[CronOf(j)].t, k)

\* the Lock call of the first cycle was made a second or more after its
\* instant and gave an error, or the task failed; the second timer has fired
\* and the third timer is armed, one second after the second
C21_Witness ==
    \E j \in JobIds :
        /\ Len(chain[j]) >= 3
        /\ lockTTL(cfg.opts) = Second /\ chain[j][1].late
        /\ chain[j][1].err \/ chain[j][1].failed
        /\ chain[j][2].st = "fired"
        /\ chain[j][3].deadline = chain[j][2].deadline + Second

----------------------------------------------------------------------------
(* Claims about the Lockers *)

\* the holders of the semaphore of name n
Holders(n) == sems[n].acquired - sems[n].released

\* C22: for SemaphoreLocker, with Lock calls on one name from several Cron
\* instances in any order: no Lock call is granted while the ttl of the
\* grant before it has not elapsed; once the ttl has elapsed the release can
\* run with no action of the caller, and with the lock released a Lock call
\* is granted; a name never has more than one holder, and the releases
\* never outnumber the grants
C22_SemaphoreExclusive ==
    /\ \A p \in Timers : ~chain[p[1]][p[2]].early
    /\ \A n \in DOMAIN sems :
          /\ Holders(n) \in {0, 1}
          /\ sems[n].held <=> Holders(n) = 1
          /\ (sems[n].held /\ now >= sems[n].releaseAt /\ ~crashed) => ENABLED Release(n)
          /\ (sems[n].held /\ now < sems[n].releaseAt) => ~ENABLED Release(n)
    /\ \A j \in JobIds :
          ~sems[cfg.job[j].name].held => [ok |-> TRUE, err |-> FALSE] \in LockOutcomes(j)

\* the lock of a name was granted, refused to the other Cron instance while
\* held, released after its ttl, and then granted again for a later
\* activation
C22_Witness ==
    \E n \in DOMAIN sems :
        /\ sems[n].acquired = 2
        /\ sems[n].released >= 1
        /\ \E p \in Timers : chain[p[1]][p[2]].blocked # -1

\* timer k of job j elapsed while the stopped flag was false: its
\* fired-procedure read the flag as false, or job.Stop stored the flag after
\* the timer had fired
ElapsedUnstopped(j, k) ==
    /\ chain[j][k].st = "fired"
    /\ ~chain[j][k].halted \/ chain[j][k].raced

\* C23 as stated: with NilLocker no activation is lost: every timer that
\* elapsed while the stopped flag was false, and whose fired-procedure has
\* ended, led to an execution of the task
C23_NoActivationLost ==
    \A p \in Timers :
        LET j == p[1]
            k == p[2]
        IN  (ElapsedUnstopped(j, k) /\ chain[j][k].pc = "done") => chain[j][k].ran

\* C23 (amended): with NilLocker every fired-procedure that read the stopped
\* flag as false and has got past its Lock call was granted the lock and
\* started its task, once; a fired-procedure that read the flag as true ran
\* nothing, also when its timer had elapsed before the flag was stored
C23_UnhaltedRunsOnce ==
    \A p \in Timers :
        LET j == p[1]
            k == p[2]
        IN  /\ (chain[j][k].pc \in {"run", "done"} /\ ~chain[j][k].halted) =>
                    /\ LockCalled(j, k)
                    /\ chain[j][k].ok
                    /\ chain[j][k].ran
            /\ chain[j][k].halted => ~chain[j][k].ran
            /\ chain[j][k].raced => chain[j][k].pc = "check" \/ chain[j][k].halted

\* the first cycle ran its task; the second timer elapsed, job.Stop stored
\* the flag before the stopped check, and the second cycle ran nothing
C23_Witness ==
    \E j \in JobIds :
        /\ Len(chain[j]) >= 2
        /\ chain[j][1].ran /\ chain[j][1].pc = "done"
        /\ chain[j][2].raced /\ chain[j][2].halted /\ chain[j][2].pc = "done"

\* a job.Schedule call of job j has armed its timer and not yet stored the
\* handle
ScheduleInProgress(j) ==
    \/ starter[CronOf(j)].pc = "store" /\ starter[CronOf(j)].j = j
    \/ \E k \in 1..Len(chain[j]) : chain[j][k].pc = "store"

\* C24: once every Schedule call of a Job has returned, the Job's timer
\* handle refers to the timer armed last; so when the Job has a live timer
\* and no Schedule call is in progress, the handle refers to the live timer
C24_HandleIsLatest ==
    \A j \in JobIds :
        (Len(chain[j]) >= 1 /\ ~ScheduleInProgress(j)) =>
            /\ handle[j] = Len(chain[j])
            /\ Live(j) \subseteq {handle[j]}

----------------------------------------------------------------------------
(* Stop() before Start() *)

\* the Cron of PoolRegistry; Stop may be called before Start, while Start is
\* arming the jobs, or after it
InitEarly ==
    /\ calc = NoCalc
    /\ reg = NoReg
    /\ cfg = PoolConfig(EarlyTicks * Quantum)
    /\ InitJobVars

SpecEarly == InitEarly /\ [][NextNoLockErr]_vars

\* job.Stop has faulted in Cron c on a nil timer
Faulted(c) == stopper[c].pc = "panic"

\* C25: Stop() on a Job that was never armed does not halt it: job.Stop
\* dereferences the nil timer and faults, the process ends, the stopped flag
\* of the Job is not set, and Cron.Stop does not go on to the Jobs it had not
\* reached; job.Stop never gets as far as the flag with a nil timer, and it
\* returns only for Jobs that were armed
C25_StopUnarmedFaults ==
    \A c \in CronIds :
        /\ Faulted(c) =>
              /\ crashed
              /\ stopper[c].t = 0
              /\ \A i \in stopper[c].todo : ~stopped[i] /\ ~StopReturned(i)
              /\ stopper[c].j \in stopper[c].todo
        /\ stopper[c].pc = "flag" => stopper[c].t # 0
        /\ \A j \in JobsOf(c) : StopReturned(j) => Len(chain[j]) >= 1
        /\ NotStarted(c) => stopper[c].pc \in {"idle", "stop", "panic"}

\* Cron.Stop was called before Start: it faulted on the first Job it took,
\* no Job is stopped, and Start can no longer arm anything
C25_Witness ==
    \E c \in CronIds :
        /\ NotStarted(c)
        /\ Faulted(c)
        /\ stopper[c].todo = JobsOf(c)
        /\ \A j \in JobsOf(c) : ~stopped[j] /\ chain[j] = <<>>
        /\ ~ENABLED StartBegin(c)

----------------------------------------------------------------------------
(* Start() after Stop() *)

\* no timer of job j is live and no fired-procedure of it is about to arm one
ChainHalted(j) ==
    /\ Live(j) = {}
    /\ \A k \in 1..Len(chain[j]) : chain[j][k].pc \notin {"check", "schedule", "store"}

\* Cron.Start is called a second time, once Cron.Stop has returned and the
\* chains have halted: now := time.Now(), and the loop over c.jobs begins anew
StartAgain(c) ==
    /\ ~crashed
    /\ starter[c].pc = "done"
    /\ ~starter[c].again
    /\ stopper[c].pc = "done"
    /\ \A j \in JobsOf(c) : ChainHalted(j)
    /\ starter' = [starter EXCEPT ![c].pc = "loop", ![c].t = now,
                                  ![c].todo = JobsOf(c), ![c].again = TRUE]
    /\ UNCHANGED <<calc, reg, now, cfg, chain, handle, stopped, stopper, sems, crashed>>

\* one Cron, built with NilLocker and nil Options, with one job that runs
\* every second
InitRestart ==
    /\ calc = NoCalc
    /\ reg = NoReg
    /\ cfg = [layout |-> "single",
              horizon |-> RestartTicks * Quantum, drain |-> 0,
              locker |-> "nil",
              opts |-> OptsNil,
              job |-> [j \in {1} |->
                        [cron |-> 1, name |-> "job",
                         schedule |-> Parse([every |-> TRUE, rest |-> "1s"]).sched,
                         task |-> "task"]]]
    /\ InitJobVars

NextRestart ==
    \/ NextNoLockErr
    \/ \E c \in CronIds : StartAgain(c)

SpecRestart == InitRestart /\ [][NextRestart]_vars

\* timer k of job j belongs to the chain the second Start began
AfterRestart(j, k) == \E m \in 2..k : chain[j][m].by = 0

\* C26: a Registry does not restart after Stop: once Cron.Stop has returned
\* and the chains have halted, a later Cron.Start leads to no execution of
\* the task, whether Stop cancelled the timer or stored the flag
C26_NoRestartAfterStop ==
    \A p \in Timers : AfterRestart(p[1], p[2]) => ~chain[p[1]][p[2]].ran

====
